---- MODULE Spec2Model ----
(***************************************************************************)
(* SQL query safety and correction pipeline of enterprise-sql-agent:       *)
(*   - SQLInjectionDetector and SecureUniversalSQLTool._validate_query_    *)
(*     security (the security validator),                                  *)
(*   - EnhancedUniversalSQLTool._run (validation, execution, retry loop),  *)
(*   - QueryCorrectionService.correct_query (ranked correction attempts).  *)
(*                                                                         *)
(* Query text is a sequence of fragments joined by single blanks.  Every   *)
(* regular expression of the source is modelled by the predicate it        *)
(* denotes on such fragment sequences.                                     *)
(***************************************************************************)
EXTENDS Integers, Sequences, FiniteSets, TLC

VARIABLES
    vq,         \* the query handed to _validate_query_security
    vdet,       \* self._injection_detector is available
    vout        \* what _validate_query_security returned

VARIABLES
    max_retry_attempts,             \* self._max_retry_attempts
    enable_auto_correction,         \* self._enable_auto_correction
    enable_progressive_strategies,  \* self._enable_progressive_strategies
    stats,              \* _security_stats and _enhanced_stats counters
    pc,                 \* position of the current _run call
    original_query,     \* query as handed to _run
    current_query,      \* query the next attempt executes
    attempt,            \* loop index of the retry loop
    error_message,      \* str(e) of the last failed execution
    security,           \* what the validation of this call reported
    db_runs,            \* db.run calls of this call
    recovery_calls,     \* _attempt_error_recovery calls of this call
    auto_corrections,   \* successful auto-corrections of this call
    strategies,         \* progressive strategies applied in this call, in order
    internal_failure,   \* a recovery or correction step raised internally
    result              \* how the call ended

VARIABLES
    cq_strategy,        \* strategy handed to correct_query
    cq_recovered,       \* the recovery engine produced a corrected query
    cq_fires,           \* rules whose pattern matches and whose fix changes the query
    cq_query,           \* query handed to correct_query, when its text is followed
    cq_raises,          \* rules whose pattern match or fix raises
    cq_attempts,        \* list returned by correct_query
    ps_returned         \* what _apply_progressive_strategy returned, and the threshold

VARIABLES
    rec_matched,        \* error patterns that the error message matches
    rec_outcome,        \* what the recovery function does with the query
    recovery_stats,     \* SQLErrorRecoveryEngine.recovery_stats
    rec_result          \* RecoveryResult of recover_from_error

VARIABLES
    rs_patterns,        \* list of matched patterns handed to calculate_risk_score
    rs_out              \* (risk_score, risk_level) it returned

VARIABLES
    enabled,            \* SemanticTableSelector.enabled
    model_ok,           \* the sentence transformer model can be loaded
    status,             \* indexing_progress.status
    table_embeddings,   \* keys of _table_embeddings
    indexing_thread,    \* _indexing_thread: index of the last worker started, 0 if None
    workers,            \* background indexing workers, in the order they were started
    requests,           \* callers of build_table_embeddings_async
    rebuilds,           \* force_rebuild_index calls so far
    cache_file,         \* table_embeddings.pkl: "none", "fresh" or "stale" (7 days old)
    progress,           \* counters of indexing_progress
    sel_pc,             \* position of the select_relevant_tables call
    sel_available,      \* its available_tables
    sel_max_tables,     \* its max_tables argument, 0 for None
    sel_result          \* what it returned

VARIABLES
    cc_total_errors,    \* recovery_stats["total_errors"] under concurrent callers
    cc_by_type,         \* recovery_stats["recovery_attempts_by_type"][type_name]
    cc_threads          \* the callers: position, value read, calls completed

vvars == <<vq, vdet, vout>>
cfgvars == <<max_retry_attempts, enable_auto_correction, enable_progressive_strategies>>
callvars == <<pc, original_query, current_query, attempt, error_message, security,
              db_runs, recovery_calls, auto_corrections, strategies,
              internal_failure, result>>
rvars == <<cfgvars, stats, callvars>>
cqvars == <<cq_strategy, cq_recovered, cq_fires, cq_query, cq_raises, cq_attempts,
            ps_returned>>
recvars == <<rec_matched, rec_outcome, recovery_stats, rec_result>>
rsvars == <<rs_patterns, rs_out>>
idxvars == <<enabled, model_ok, status, table_embeddings, indexing_thread, workers,
             requests, rebuilds>>
selvars == <<sel_pc, sel_available, sel_max_tables, sel_result>>
pvars == <<cache_file, progress>>
ccvars == <<cc_total_errors, cc_by_type, cc_threads>>
xvars == <<recvars, rsvars, idxvars, pvars, selvars, ccvars>>
vars == <<vvars, rvars, cqvars, xvars>>

\* recover_from_error has not been called
NotRecovered == [success |-> FALSE, corrected_query |-> "none", error_type |-> "none",
                 confidence |-> -1]

IdleRecovery ==
    /\ rec_matched = {}
    /\ rec_outcome = "unchanged"
    /\ recovery_stats = [total_errors |-> 0, successful_recoveries |-> 0]
    /\ rec_result = NotRecovered

\* calculate_risk_score has not been called on its own
NotScored == [score |-> -1, level |-> "none"]

IdleScore ==
    /\ rs_patterns = <<>>
    /\ rs_out = NotScored

\* threads that ask for an index build
Requesters == {"r1", "r2"}

IdleRequest == [pc |-> "idle", count |-> 0, table_info |-> <<>>]

\* select_relevant_tables has not returned
NoSelection == [tables |-> <<>>, fallback_used |-> FALSE, during_build |-> FALSE,
                scoring |-> "skipped"]

\* IndexingProgress.__init__
NoProgress == [total_tables |-> 0, processed_tables |-> 0, successful_tables |-> 0,
               failed_tables |-> 0]

\* a selector nobody uses: SemanticTableSelector.__init__ with no cache on disk
IdleSelector ==
    /\ cache_file = "none"
    /\ progress = NoProgress
    /\ enabled = TRUE
    /\ model_ok = TRUE
    /\ status = "not_started"
    /\ table_embeddings = {}
    /\ indexing_thread = 0
    /\ workers = <<>>
    /\ requests = [r \in Requesters |-> IdleRequest]
    /\ rebuilds = 0
    /\ sel_pc = "idle"
    /\ sel_available = <<>>
    /\ sel_max_tables = 0
    /\ sel_result = NoSelection

\* threads that call recover_from_error on one engine
Threads == {"t1", "t2", "t3"}

IdleThread == [pc |-> "idle", got |-> 0, done |-> 0]

IdleCallers ==
    /\ cc_total_errors = 0
    /\ cc_by_type = 0
    /\ cc_threads = [t \in Threads |-> IdleThread]

IdleEngines == IdleRecovery /\ IdleScore /\ IdleSelector /\ IdleCallers

(***************************************************************************)
(* Bounds of the model.                                                    *)
(***************************************************************************)
MaxFrags == 3
MaxFailFrags == 2
MaxRetries == 3

(***************************************************************************)
(* Program constants.                                                      *)
(***************************************************************************)
max_query_length == 5000
max_limit_value == 1000
max_joins == 5
max_subqueries == 3
require_limit == TRUE

(***************************************************************************)
(* Query text.                                                             *)
(*   SEL     SELECT id FROM t          STAR    SELECT * FROM t             *)
(*   WHR     WHERE id = 1              TAUT    OR 1=1                      *)
(*   LIM     LIMIT 10                  BIGLIM  LIMIT 5000                  *)
(*   DROP    ; DROP TABLE x            TRUNC   ; TRUNCATE TABLE x          *)
(*   CMT     a block comment           USERF   USER()                      *)
(*   SUSP3   SYSTEM(SHELL(SCRIPT(1)))  UNION   UNION SELECT p FROM u       *)
(*   PAD     a word of 5000 letters    EXPLAIN EXPLAIN                     *)
(*   TICKLIM LIMIT 50`00, a backtick inside the number; only the queries   *)
(*           handed to _run use it                                         *)
(***************************************************************************)
Fragments ==
    {"SEL", "STAR", "WHR", "TAUT", "LIM", "BIGLIM", "DROP", "TRUNC",
     "CMT", "USERF", "SUSP3", "UNION", "PAD", "EXPLAIN"}

FragLen(f) ==
    CASE f = "SEL" -> 16 [] f = "STAR" -> 15 [] f = "WHR" -> 12
      [] f = "TAUT" -> 6 [] f = "LIM" -> 8 [] f = "BIGLIM" -> 10
      [] f = "DROP" -> 14 [] f = "TRUNC" -> 18 [] f = "CMT" -> 7
      [] f = "USERF" -> 6 [] f = "SUSP3" -> 24 [] f = "UNION" -> 21
      [] f = "PAD" -> 5000 [] f = "EXPLAIN" -> 7 [] f = "TICKLIM" -> 11

\* number of JOIN keywords and of unbalanced parentheses in a fragment
FragJoins(f) == 0
FragParens(f) == 0

QueriesUpTo(m) == UNION {[1..n -> Fragments] : n \in 0..m}

Cnt(q, f) == Len(SelectSeq(q, LAMBDA x : x = f))

Rep(n, v) == [i \in 1..n |-> v]

RECURSIVE SumSeq(_)
SumSeq(s) == IF s = <<>> THEN 0 ELSE Head(s) + SumSeq(Tail(s))

\* len(sql.strip())
QueryLength(q) ==
    IF q = <<>> THEN 0
    ELSE SumSeq([i \in 1..Len(q) |-> FragLen(q[i])]) + (Len(q) - 1)

\* len(re.findall(r'\bJOIN\b', sql_upper))
JoinCount(q) == SumSeq([i \in 1..Len(q) |-> FragJoins(q[i])])

\* sql_normalized.count('(') - sql_normalized.count(')')
ParenImbalance(q) == SumSeq([i \in 1..Len(q) |-> FragParens(q[i])])

\* characters = < > ! occur in the fragment
HasCmpChar(f) == f \in {"WHR", "TAUT"}
\* every character of the fragment is in [\w\s=<>!',\.\(\)]
InWhereClass(f) == f \notin {"STAR", "DROP", "TRUNC", "CMT"}
\* every character of the fragment is in [\w\s,\.\(\)]
InColsClass(f) == InWhereClass(f) /\ ~HasCmpChar(f)

\* UNION\s+(?:ALL\s+)?SELECT.*(?:--|\#|\/\*)
UnionThenComment(q) ==
    \E i, j \in 1..Len(q) : i < j /\ q[i] = "UNION" /\ q[j] = "CMT"

\* WHERE\s+[^=<>!]*\s*=\s*[^=<>!]*\s+OR\s+1\s*=\s*1
AlwaysTrueWhere(q) ==
    \E i, j \in 1..Len(q) :
        /\ i < j /\ q[i] = "WHR" /\ q[j] = "TAUT"
        /\ \A k \in (i+1)..(j-1) : ~HasCmpChar(q[k])

(***************************************************************************)
(* SQLInjectionDetector                                                    *)
(***************************************************************************)
Pat(d, l, c) == [description |-> d, risk_level |-> l, category |-> c]

\* the matches re.finditer yields, pattern by pattern in table order
DetectInjectionPatterns(q) ==
    Rep(Cnt(q, "TAUT"),
        Pat("Classic tautology-based SQL injection", "critical", "injection"))
    \o Rep(Cnt(q, "DROP"),
        Pat("Statement termination with dangerous command", "critical", "injection"))
    \o Rep(Cnt(q, "UNION"),
        Pat("UNION-based SQL injection attempt", "critical", "injection"))
    \o Rep(IF UnionThenComment(q) THEN 1 ELSE 0,
        Pat("UNION injection with comment obfuscation", "critical", "injection"))
    \o Rep(Cnt(q, "TAUT"),
        Pat("Boolean-based blind SQL injection", "high", "injection"))
    \o Rep(Cnt(q, "USERF"),
        Pat("User information function", "low", "disclosure"))
    \o Rep(Cnt(q, "CMT"),
        Pat("Block comment (potential obfuscation)", "medium", "obfuscation"))

RiskWeight(l) ==
    CASE l = "critical" -> 100 [] l = "high" -> 75 [] l = "medium" -> 50
      [] l = "low" -> 25 [] OTHER -> 0

Min(a, b) == IF a < b THEN a ELSE b

\* the level of the last match, whatever was seen before
TrackLevelLast(max, l) == l

\* one pass of the loop body that tracks the highest risk level
TrackLevel(max, l) ==
    IF l = "critical" THEN "critical"
    ELSE IF l = "high" /\ max \notin {"critical"} THEN "high"
    ELSE IF l = "medium" /\ max \notin {"critical", "high"} THEN "medium"
    ELSE IF l = "low" /\ max = "safe" THEN "low"
    ELSE max

RECURSIVE ScoreLoop(_, _, _)
ScoreLoop(ps, total, max) ==
    IF ps = <<>> THEN [score |-> Min(total, 100), level |-> max]
    ELSE ScoreLoop(Tail(ps), total + RiskWeight(Head(ps).risk_level),
                   TrackLevel(max, Head(ps).risk_level))

CalculateRiskScore(ps) ==
    IF ps = <<>> THEN [score |-> 0, level |-> "safe"] ELSE ScoreLoop(ps, 0, "safe")

\* whitelist pattern 1: ^SELECT cols FROM \w+ [WHERE ...] [LIMIT \d+] ;?$
WhitelistTail(t) ==
    \/ t = <<>>
    \/ Len(t) = 1 /\ t[1] \in {"LIM", "BIGLIM"}
    \/ t[1] = "WHR" /\ \A k \in 2..Len(t) : InWhereClass(t[k])

WhitelistSelect(q) ==
    /\ q # <<>> /\ q[1] = "SEL"
    /\ \E f \in 1..Len(q) :
        /\ f > 1 => /\ q[f] \in {"SEL", "UNION"}
                    /\ \A k \in 2..(f-1) : InColsClass(q[k])
        /\ WhitelistTail(SubSeq(q, f+1, Len(q)))

\* whitelist pattern 4: ^EXPLAIN\s+SELECT\s+.*$
WhitelistExplain(q) ==
    Len(q) >= 2 /\ q[1] = "EXPLAIN" /\ q[2] \in {"SEL", "STAR"}

IsWhitelisted(q) == WhitelistSelect(q) \/ WhitelistExplain(q)

HasLevel(ps, levels) == \E i \in 1..Len(ps) : ps[i].risk_level \in levels

GenerateSecurityReport(q) ==
    LET detected == DetectInjectionPatterns(q)
        rs == CalculateRiskScore(detected)
    IN  [risk_score |-> rs.score,
         risk_level |-> rs.level,
         is_whitelisted |-> IsWhitelisted(q),
         detailed_patterns |-> detected,
         safe_to_execute |-> rs.score < 75 /\ ~HasLevel(detected, {"critical"})]

(***************************************************************************)
(* SecureUniversalSQLTool: security rules and _validate_query_security     *)
(***************************************************************************)
Rule(d, l) == [description |-> d, risk_level |-> l]

\* the rules of a rule list that re.search finds in the query, in list order
CriticalViolations(q) ==
    (IF Cnt(q, "DROP") + Cnt(q, "TRUNC") > 0
        THEN <<Rule("DML/DDL operations not allowed", "critical")>> ELSE <<>>)
    \o (IF UnionThenComment(q)
        THEN <<Rule("SQL injection attempt via UNION with comments", "critical")>>
        ELSE <<>>)

MediumViolations(q) ==
    (IF Cnt(q, "CMT") > 0
        THEN <<Rule("SQL comments detected (potential obfuscation)", "medium")>>
        ELSE <<>>)
    \o (IF Cnt(q, "UNION") > 0
        THEN <<Rule("UNION operations require careful review", "medium")>> ELSE <<>>)

PerformanceViolations(q) ==
    (IF q # <<>> /\ q[Len(q)] = "STAR"
        THEN <<Rule("SELECT * without specific column selection", "low")>> ELSE <<>>)
    \o (IF AlwaysTrueWhere(q)
        THEN <<Rule("Always-true conditions (potential injection)", "high")>>
        ELSE <<>>)

SuspiciousFound(q) ==
    (IF Cnt(q, "SUSP3") > 0 THEN <<"SCRIPT", "SHELL", "SYSTEM">> ELSE <<>>)
    \o (IF Cnt(q, "USERF") > 0 THEN <<"USER">> ELSE <<>>)

StartsWithSelect(q) == q # <<>> /\ q[1] \in {"SEL", "STAR"}
ContainsLimit(q) == Cnt(q, "LIM") + Cnt(q, "BIGLIM") + Cnt(q, "TICKLIM") > 0
ContainsTop(q) == FALSE

\* re.search(r'LIMIT\s+(\d+)', sql_upper): the first LIMIT value, -1 when none
LimitValue(q) ==
    LET ls == SelectSeq(q, LAMBDA x : x \in {"LIM", "BIGLIM", "TICKLIM"})
    IN  IF ls = <<>> THEN -1 ELSE IF ls[1] = "LIM" THEN 10
        ELSE IF ls[1] = "TICKLIM" THEN 50 ELSE 5000

Msg(k, t) == [kind |-> k, text |-> t]

EmptyReport ==
    [is_safe |-> TRUE, violations |-> <<>>, warnings |-> <<>>,
     risk_level |-> "low", recommendations |-> <<>>]

\* 2. injection detection
StepInjection(r, q) ==
    LET ir == GenerateSecurityReport(q)
        dp == ir.detailed_patterns
        hi == SelectSeq(dp, LAMBDA p : p.risk_level \in {"critical", "high"})
        lo == SelectSeq(dp, LAMBDA p : p.risk_level \in {"medium", "low"})
        r1 == IF ~ir.safe_to_execute
              THEN [r EXCEPT
                     !.violations = @ \o [i \in 1..Len(hi) |->
                         Msg("SQL injection pattern detected", hi[i].description)],
                     !.risk_level = ir.risk_level,
                     !.is_safe = FALSE]
              ELSE r
    IN  [r1 EXCEPT !.warnings = @ \o [i \in 1..Len(lo) |->
                         Msg("Potential issue", lo[i].description)]]

\* 3. length validation
StepLength(r, q) ==
    IF QueryLength(q) > max_query_length
    THEN [r EXCEPT !.violations = Append(@, Msg("length", "Query length exceeds maximum")),
                   !.risk_level = "medium",
                   !.is_safe = FALSE]
    ELSE r

\* variant of step 4 that reports the matches as warnings
StepCriticalAsWarning(r, q) ==
    LET ms == CriticalViolations(q)
    IN  [r EXCEPT !.warnings = @ \o [i \in 1..Len(ms) |->
                                      Msg("rule", ms[i].description)]]

\* 4. critical violations (auto-block)
StepCritical(r, q) ==
    LET ms == CriticalViolations(q)
    IN  IF ms = <<>> THEN r
        ELSE [r EXCEPT !.violations = @ \o [i \in 1..Len(ms) |->
                                           Msg("rule", ms[i].description)],
                       !.risk_level = "critical",
                       !.is_safe = FALSE]

\* 5. medium-risk violations, one matched rule
MediumRule(r, rule) ==
    LET r1 == IF rule.risk_level = "high"
              THEN [r EXCEPT !.violations = Append(@, Msg("rule", rule.description)),
                             !.is_safe = FALSE]
              ELSE [r EXCEPT !.warnings = Append(@, Msg("rule", rule.description))]
    IN  IF r1.risk_level = "low" THEN [r1 EXCEPT !.risk_level = rule.risk_level] ELSE r1

\* 6. performance violations, one matched rule
PerformanceRule(r, rule) ==
    IF rule.risk_level = "high"
    THEN [r EXCEPT !.violations = Append(@, Msg("rule", rule.description)),
                   !.is_safe = FALSE]
    ELSE [r EXCEPT !.warnings = Append(@, Msg("rule", rule.description)),
                   !.recommendations =
                       Append(@, "Consider optimizing query performance")]

RECURSIVE MediumLoop(_, _)
MediumLoop(r, rules) ==
    IF rules = <<>> THEN r ELSE MediumLoop(MediumRule(r, Head(rules)), Tail(rules))

RECURSIVE PerformanceLoop(_, _)
PerformanceLoop(r, rules) ==
    IF rules = <<>> THEN r
    ELSE PerformanceLoop(PerformanceRule(r, Head(rules)), Tail(rules))

StepMedium(r, q) == MediumLoop(r, MediumViolations(q))

StepPerformance(r, q) == PerformanceLoop(r, PerformanceViolations(q))

\* 7. suspicious functions
StepSuspicious(r, q) ==
    LET found == SuspiciousFound(q)
    IN  IF found = <<>> THEN r
        ELSE LET r1 == [r EXCEPT !.warnings =
                           Append(@, Msg("Suspicious functions detected", "list"))]
             IN  IF Len(found) > 2 THEN [r1 EXCEPT !.risk_level = "medium"] ELSE r1

\* variant of step 8 that requires no LIMIT
StepRequireLimitOff(r, q) == r

\* 8. LIMIT requirement for SELECT queries
StepRequireLimit(r, q) ==
    IF require_limit /\ StartsWithSelect(q) /\ ~ContainsLimit(q) /\ ~ContainsTop(q)
    THEN [r EXCEPT !.violations =
                       Append(@, Msg("limit", "SELECT queries must include LIMIT clause")),
                   !.recommendations =
                       Append(@, "Add LIMIT clause to prevent excessive resource usage"),
                   !.is_safe = FALSE]
    ELSE r

\* 9. LIMIT value
StepLimitValue(r, q) ==
    IF LimitValue(q) > max_limit_value
    THEN [r EXCEPT !.violations =
                       Append(@, Msg("limit", "LIMIT value exceeds maximum allowed")),
                   !.is_safe = FALSE]
    ELSE r

\* 10. excessive complexity
StepJoins(r, q) ==
    IF JoinCount(q) > max_joins
    THEN [r EXCEPT !.warnings = Append(@, Msg("joins", "Query has too many JOINs")),
                   !.recommendations =
                       Append(@, "Consider breaking complex queries into smaller parts")]
    ELSE r

\* 11. nested subqueries
StepSubqueries(r, q) ==
    LET c == ParenImbalance(q)
    IN  IF (IF c < 0 THEN -c ELSE c) > max_subqueries
        THEN [r EXCEPT !.warnings =
                           Append(@, Msg("subqueries", "Complex nested subqueries detected")),
                       !.recommendations =
                           Append(@, "Consider simplifying query structure")]
        ELSE r

\* final risk assessment
FinalAssessment(r) ==
    IF r.violations # <<>>
    THEN LET r1 == [r EXCEPT !.is_safe = FALSE]
         IN  IF r1.risk_level = "low" THEN [r1 EXCEPT !.risk_level = "medium"] ELSE r1
    ELSE r

\* variant of the handler that records the error and leaves the verdict as it is
ValidationErrorOpen(r) ==
    [r EXCEPT !.violations = Append(@, Msg("Security validation error", "exception")),
              !.risk_level = "critical"]

\* except Exception as e
ValidationError(r) ==
    [r EXCEPT !.violations = Append(@, Msg("Security validation error", "exception")),
              !.is_safe = FALSE,
              !.risk_level = "critical"]

\* the statements of the try block, numbered as in the source; 12 is the final
\* risk assessment
NumSteps == 12

Step(k, r, q, detector) ==
    CASE k = 2 -> IF detector THEN StepInjection(r, q) ELSE r
      [] k = 3 -> StepLength(r, q)
      [] k = 4 -> StepCritical(r, q)
      [] k = 5 -> StepMedium(r, q)
      [] k = 6 -> StepPerformance(r, q)
      [] k = 7 -> StepSuspicious(r, q)
      [] k = 8 -> StepRequireLimit(r, q)
      [] k = 9 -> StepLimitValue(r, q)
      [] k = 10 -> StepJoins(r, q)
      [] k = 11 -> StepSubqueries(r, q)
      [] k = 12 -> FinalAssessment(r)

\* a statement that is not executed cannot raise
Executes(k, detector) == k # 2 \/ detector

RECURSIVE RunSteps(_, _, _, _, _)
RunSteps(r, k, q, detector, failAt) ==
    IF k > NumSteps THEN [report |-> r, raised |-> FALSE]
    ELSE IF k = failAt /\ Executes(k, detector)
         THEN [report |-> ValidationError(r), raised |-> TRUE]
         ELSE RunSteps(Step(k, r, q, detector), k + 1, q, detector, failAt)

SummaryMessage(r) ==
    IF r.is_safe
    THEN IF r.warnings # <<>> THEN "Security validation passed (with warnings)"
         ELSE "Security validation passed"
    ELSE "Security validation failed"

\* failAt = 0: no statement raises; failAt = k: statement k raises when executed
ValidateQuerySecurity(q, detector, failAt) ==
    IF failAt = 1
    THEN LET r == ValidationError(EmptyReport)
         IN  [is_safe |-> r.is_safe, message |-> SummaryMessage(r),
              report |-> r, raised |-> TRUE]
    ELSE IF q = <<>>
    THEN LET r == [EmptyReport EXCEPT
                     !.violations = <<Msg("empty", "Empty query not allowed")>>,
                     !.is_safe = FALSE]
         IN  [is_safe |-> FALSE, message |-> "Empty query", report |-> r,
              raised |-> FALSE]
    ELSE LET out == RunSteps(EmptyReport, 2, q, detector, failAt)
         IN  [is_safe |-> out.report.is_safe, message |-> SummaryMessage(out.report),
              report |-> out.report, raised |-> out.raised]

(***************************************************************************)
(* EnhancedUniversalSQLTool._run: validation, execution and the retry      *)
(* loop.  A query string is its fragments and whether a ';' ends it.       *)
(***************************************************************************)
Text(f, s) == [frags |-> f, semi |-> s]

\* SELECT id FROM t LIMIT 10 and SELECT id FROM t, with and without the ';'
RunQueries == {Text(f, s) : f \in {<<"SEL", "LIM">>, <<"SEL">>}, s \in BOOLEAN}

NoQuery == Text(<<>>, FALSE)

\* SELECT id FROM t LIMIT 50`00
TickQueries == {Text(<<"SEL", "TICKLIM">>, s) : s \in BOOLEAN}

RunInputs == RunQueries \cup TickQueries \cup {NoQuery}

RetryValues == -1..MaxRetries

ErrorMessages == {"e1", "e2"}

Strategies == {"conservative", "moderate", "aggressive"}

\* sql.replace('`', ''): LIMIT 50`00 becomes LIMIT 5000
StripBackticks(f) == [i \in 1..Len(f) |-> IF f[i] = "TICKLIM" THEN "BIGLIM" ELSE f[i]]

\* markdown and blanks are absent from the fragments; backticks are removed
\* and a ';' is appended
CleanSqlQuery(q) ==
    IF q.frags = <<>> THEN q ELSE Text(StripBackticks(q.frags), TRUE)

ZeroStats ==
    [total_queries |-> 0, blocked_queries |-> 0, queries_with_errors |-> 0,
     queries_auto_corrected |-> 0, retry_attempts |-> 0, successful_retries |-> 0,
     correction_strategies_used |-> [s \in Strategies |-> 0]]

\* variant of the ladder that never reaches aggressive
GetProgressiveStrategyCapped(a) ==
    IF a = 0 THEN "conservative" ELSE "moderate"

GetProgressiveStrategy(a) ==
    IF a = 0 THEN "conservative" ELSE IF a = 1 THEN "moderate" ELSE "aggressive"

\* variant of the test that lets every query through
BlocksNothing(is_safe) == FALSE

\* if not is_safe
Blocks(is_safe) == ~is_safe

\* variant of the test that is off by one
IsLastAttemptLate(a, n) == a > n

\* if attempt >= self._max_retry_attempts
IsLastAttempt(a, n) == a >= n

NoResult ==
    [kind |-> "none", exit |-> "none", error |-> "none", modified |-> FALSE,
     suggestions |-> FALSE]

NoSecurity == [state |-> "none", is_safe |-> FALSE]

SecurityErrorResult ==
    [kind |-> "security_error", exit |-> "validation", error |-> "none",
     modified |-> FALSE, suggestions |-> FALSE]

Raised(where) ==
    [kind |-> "raised", exit |-> where, error |-> "none", modified |-> FALSE,
     suggestions |-> FALSE]

Success(original, executed) ==
    [kind |-> "result", exit |-> "loop", error |-> "none",
     modified |-> original # executed, suggestions |-> FALSE]

\* get_correction_suggestions is called outside any try block: when it raises,
\* the exception leaves _run
HandleFinalError(original, final, error, where, suggestRaises) ==
    IF suggestRaises THEN Raised(where)
    ELSE [kind |-> "failure_report", exit |-> where, error |-> error,
          modified |-> original # final, suggestions |-> TRUE]

LogSuccessfulExecution(st, original, executed) ==
    IF original # executed
    THEN [st EXCEPT !.successful_retries = @ + 1]
    ELSE st

\* statistics update of the except block
FailStats(st, a) ==
    [st EXCEPT !.queries_with_errors = @ + 1,
               !.retry_attempts = IF a > 0 THEN @ + 1 ELSE @]

IdleCall ==
    /\ pc = "idle"
    /\ original_query = NoQuery
    /\ current_query = NoQuery
    /\ attempt = 0
    /\ error_message = "none"
    /\ security = NoSecurity
    /\ db_runs = 0
    /\ recovery_calls = 0
    /\ auto_corrections = 0
    /\ strategies = <<>>
    /\ internal_failure = FALSE
    /\ result = NoResult

InitRun ==
    /\ max_retry_attempts = 3
    /\ enable_auto_correction = TRUE
    /\ enable_progressive_strategies = TRUE
    /\ stats = ZeroStats
    /\ IdleCall

\* the tool is configured before it runs the query
ConfigureErrorRecovery ==
    /\ pc = "idle"
    /\ \E n \in RetryValues, auto \in BOOLEAN, progressive \in BOOLEAN :
         /\ max_retry_attempts' = n
         /\ enable_auto_correction' = auto
         /\ enable_progressive_strategies' = progressive
    /\ UNCHANGED <<xvars, stats, callvars, vvars, cqvars>>

\* lines 73-101: statistics, validation, block or clean.  hashRaises: the text
\* holds a lone surrogate, so sql.encode() raises before the try block of the
\* validation; failAt: a statement inside that try block raises.
StartRun ==
    /\ pc = "idle"
    /\ \E q \in RunInputs, hashRaises \in BOOLEAN, failAt \in 0..NumSteps :
         LET v == ValidateQuerySecurity(q.frags, vdet, failAt)
             st == [stats EXCEPT !.total_queries = @ + 1]
         IN  /\ original_query' = q
             /\ IF hashRaises
                THEN /\ security' = [state |-> "raised", is_safe |-> FALSE]
                     /\ stats' = st
                     /\ pc' = "done"
                     /\ result' = Raised("validation")
                     /\ current_query' = NoQuery
                ELSE /\ security' = [state |-> "returned", is_safe |-> v.is_safe]
                     /\ IF Blocks(v.is_safe)
                        THEN /\ stats' = [st EXCEPT !.blocked_queries = @ + 1]
                             /\ pc' = "done"
                             /\ result' = SecurityErrorResult
                             /\ current_query' = NoQuery
                        ELSE /\ stats' = st
                             /\ pc' = "loop"
                             /\ result' = NoResult
                             /\ current_query' = CleanSqlQuery(q)
    /\ attempt' = 0
    /\ error_message' = "none"
    /\ db_runs' = 0
    /\ recovery_calls' = 0
    /\ auto_corrections' = 0
    /\ strategies' = <<>>
    /\ internal_failure' = FALSE
    /\ UNCHANGED <<xvars, cfgvars, vvars, cqvars>>

\* for attempt in range(self._max_retry_attempts + 1)
InLoop == pc = "loop" /\ attempt <= max_retry_attempts

\* db.run returns
ExecuteSuccess ==
    /\ InLoop
    /\ db_runs' = db_runs + 1
    /\ stats' = LogSuccessfulExecution(stats, original_query, current_query)
    /\ result' = Success(original_query, current_query)
    /\ pc' = "done"
    /\ UNCHANGED <<xvars, cfgvars, original_query, current_query, attempt,
                   error_message, security, recovery_calls, auto_corrections,
                   strategies, internal_failure, vvars, cqvars>>

\* db.run raises on the last attempt
ExecuteFailFinal ==
    /\ InLoop
    /\ IsLastAttempt(attempt, max_retry_attempts)
    /\ \E e \in ErrorMessages, suggestRaises \in BOOLEAN :
         /\ error_message' = e
         /\ result' = HandleFinalError(original_query, current_query, e, "loop",
                                       suggestRaises)
    /\ db_runs' = db_runs + 1
    /\ stats' = FailStats(stats, attempt)
    /\ pc' = "done"
    /\ UNCHANGED <<xvars, cfgvars, original_query, current_query, attempt,
                   security, recovery_calls, auto_corrections, strategies,
                   internal_failure, vvars, cqvars>>

\* db.run raises and the recovery engine corrects the query
ExecuteFailAutoCorrected ==
    /\ InLoop
    /\ ~IsLastAttempt(attempt, max_retry_attempts)
    /\ enable_auto_correction
    /\ \E e \in ErrorMessages, c \in RunQueries \ {current_query} :
         /\ error_message' = e
         /\ current_query' = c
    /\ db_runs' = db_runs + 1
    /\ recovery_calls' = recovery_calls + 1
    /\ auto_corrections' = auto_corrections + 1
    /\ stats' = [FailStats(stats, attempt) EXCEPT !.queries_auto_corrected = @ + 1]
    /\ attempt' = attempt + 1
    /\ UNCHANGED <<xvars, cfgvars, pc, original_query, security, strategies,
                   internal_failure, result, vvars, cqvars>>

\* db.run raises, the recovery engine is disabled, finds no fix or raises, and
\* a progressive strategy is applied: it returns a candidate c, or the query
\* itself when it has no candidate or raises
ExecuteFailProgressive ==
    /\ InLoop
    /\ ~IsLastAttempt(attempt, max_retry_attempts)
    /\ enable_progressive_strategies /\ attempt < max_retry_attempts
    /\ \E e \in ErrorMessages, recoveryRaises \in {FALSE, enable_auto_correction},
          strategyRaises \in BOOLEAN, c \in RunQueries :
         LET strategy == GetProgressiveStrategy(attempt)
             corrected == IF strategyRaises THEN current_query ELSE c
             changed == corrected # current_query
             st == FailStats(stats, attempt)
         IN  /\ error_message' = e
             /\ current_query' = corrected
             /\ strategies' = Append(strategies,
                    [strategy |-> strategy, attempt |-> attempt, changed |-> changed,
                     autos_before |-> auto_corrections])
             /\ stats' = IF changed
                         THEN [st EXCEPT !.correction_strategies_used[strategy] = @ + 1]
                         ELSE st
             /\ internal_failure' = (internal_failure \/ recoveryRaises \/ strategyRaises)
    /\ db_runs' = db_runs + 1
    /\ recovery_calls' = IF enable_auto_correction THEN recovery_calls + 1
                         ELSE recovery_calls
    /\ attempt' = attempt + 1
    /\ UNCHANGED <<xvars, cfgvars, pc, original_query, security, auto_corrections,
                   result, vvars, cqvars>>

\* db.run raises and nothing corrects the query: the next attempt runs the
\* same query
ExecuteFailUncorrected ==
    /\ InLoop
    /\ ~IsLastAttempt(attempt, max_retry_attempts)
    /\ ~(enable_progressive_strategies /\ attempt < max_retry_attempts)
    /\ \E e \in ErrorMessages, recoveryRaises \in {FALSE, enable_auto_correction} :
         /\ error_message' = e
         /\ internal_failure' = (internal_failure \/ recoveryRaises)
    /\ db_runs' = db_runs + 1
    /\ recovery_calls' = IF enable_auto_correction THEN recovery_calls + 1
                         ELSE recovery_calls
    /\ stats' = FailStats(stats, attempt)
    /\ attempt' = attempt + 1
    /\ UNCHANGED <<xvars, cfgvars, pc, original_query, current_query, security,
                   auto_corrections, strategies, result, vvars, cqvars>>

\* the statements after the loop, reached when the range is exhausted
PostLoop ==
    /\ pc = "loop"
    /\ attempt > max_retry_attempts
    /\ \E suggestRaises \in BOOLEAN :
         result' = HandleFinalError(original_query, current_query,
                                    "Max retries exceeded", "postloop", suggestRaises)
    /\ pc' = "done"
    /\ UNCHANGED <<xvars, cfgvars, stats, original_query, current_query, attempt,
                   error_message, security, db_runs, recovery_calls,
                   auto_corrections, strategies, internal_failure, vvars, cqvars>>

(***************************************************************************)
(* QueryCorrectionService.correct_query.  Confidences are in percent and   *)
(* estimated success rates in per mille.  The query is seen through the    *)
(* set of rules that yield an attempt on it: the rules whose pattern       *)
(* matches it and whose fix changes it.                                    *)
(***************************************************************************)
CorrectionRule(n, c) == [name |-> n, confidence |-> c]

PerformanceOptimizations ==
    <<CorrectionRule("add_missing_limit", 90),
      CorrectionRule("optimize_select_star", 70),
      CorrectionRule("add_where_conditions", 50)>>

SyntaxCorrections ==
    <<CorrectionRule("fix_missing_commas", 80),
      CorrectionRule("fix_quote_consistency", 90),
      CorrectionRule("fix_case_sensitivity", 60)>>

SemanticCorrections ==
    <<CorrectionRule("fix_aggregation_without_group_by", 70),
      CorrectionRule("fix_having_without_group_by", 80)>>

AllRules == PerformanceOptimizations \o SyntaxCorrections \o SemanticCorrections

RuleNames == {AllRules[i].name : i \in 1..Len(AllRules)}

\* what can yield an attempt: the rules and the typo fix
Fixes == RuleNames \cup {"fix_common_typos"}

\* confidence of every ErrorPattern of the recovery engine
RecoveryConfidence == 80

CorrectionAttempt(s, c, n, e) ==
    [strategy |-> s, confidence |-> c, corrections_applied |-> n,
     estimated_success_rate |-> e]

\* one attempt for each rule of the list that yields one, in list order
RECURSIVE RuleAttempts(_, _, _, _, _, _)
RuleAttempts(rules, fires, lo, hi, s, factor) ==
    IF rules = <<>> THEN <<>>
    ELSE LET r == Head(rules)
             rest == RuleAttempts(Tail(rules), fires, lo, hi, s, factor)
         IN  IF r.confidence >= lo /\ r.confidence < hi /\ r.name \in fires
             THEN <<CorrectionAttempt(s, r.confidence, r.name, r.confidence * factor)>>
                  \o rest
             ELSE rest

ApplyConservativeCorrections(fires) ==
    RuleAttempts(SyntaxCorrections, fires, 80, 101, "conservative", 9)
    \o (IF "fix_common_typos" \in fires
        THEN <<CorrectionAttempt("conservative", 95, "fix_common_typos", 900)>>
        ELSE <<>>)

\* variant of the moderate strategy that starts from an empty list
ApplyModerateCorrectionsAlone(fires) ==
    RuleAttempts(PerformanceOptimizations, fires, 70, 101, "moderate", 8)
    \o RuleAttempts(SemanticCorrections, fires, 60, 101, "moderate", 7)

ApplyModerateCorrections(fires) ==
    ApplyConservativeCorrections(fires)
    \o RuleAttempts(PerformanceOptimizations, fires, 70, 101, "moderate", 8)
    \o RuleAttempts(SemanticCorrections, fires, 60, 101, "moderate", 7)

ApplyAggressiveCorrections(fires) ==
    ApplyModerateCorrections(fires)
    \o RuleAttempts(AllRules, fires, 0, 60, "aggressive", 5)

\* key=lambda x: (x.confidence, x.estimated_success_rate), compared as tuples
KeyLess(a, b) ==
    \/ a.confidence < b.confidence
    \/ a.confidence = b.confidence
         /\ a.estimated_success_rate < b.estimated_success_rate

RECURSIVE InsertAttempt(_, _)
InsertAttempt(x, sorted) ==
    IF sorted = <<>> THEN <<x>>
    ELSE IF KeyLess(Head(sorted), x) THEN <<x>> \o sorted
    ELSE <<Head(sorted)>> \o InsertAttempt(x, Tail(sorted))

RECURSIVE SortLoop(_, _)
SortLoop(sorted, rest) ==
    IF rest = <<>> THEN sorted
    ELSE SortLoop(InsertAttempt(Head(rest), sorted), Tail(rest))

\* variant of the sort that leaves the discovery order
Unsorted(attempts) == attempts

\* attempts.sort(key=..., reverse=True): descending and stable
SortAttempts(attempts) == SortLoop(<<>>, attempts)

\* the attempts in discovery order
DiscoveredAttempts(recovered, fires, strategy) ==
    (IF recovered
     THEN <<CorrectionAttempt(strategy, RecoveryConfidence, "recovery",
                              RecoveryConfidence * 10)>>
     ELSE <<>>)
    \o (CASE strategy = "conservative" -> ApplyConservativeCorrections(fires)
          [] strategy = "moderate" -> ApplyModerateCorrections(fires)
          [] strategy = "aggressive" -> ApplyAggressiveCorrections(fires))

CorrectQuery(recovered, fires, strategy) ==
    SortAttempts(DiscoveredAttempts(recovered, fires, strategy))

(***************************************************************************)
(* The correction rules on query text.                                     *)
(*   SEL    SELECT id FROM t           STAR   SELECT * FROM t              *)
(*   ALIAS  SELECT id i FROM t         TYPO   SELCET id FROM t             *)
(*   WHR    WHERE id = 1               NEQ    WHERE name != 'x'            *)
(*   QNUM   WHERE zip = '12345'        LIM    LIMIT 10                     *)
(* and, written by the fixes,                                              *)
(*   LIM100      LIMIT 100;                                                *)
(*   STAR_TODO   SELECT id, name -- TODO: Specify ... FROM t               *)
(*   TODO_WHERE  -- TODO: Consider adding WHERE clause for filtering       *)
(*   COMMA       SELECT id, i FROM t                                       *)
(*   NUM         WHERE zip = 12345     NEQ_STD  WHERE name <> 'x'          *)
(***************************************************************************)
CorrHeads == {"SEL", "STAR", "ALIAS", "TYPO"}

CorrWheres == {"WHR", "NEQ", "QNUM"}

\* a head, then at most one WHERE clause, then at most one LIMIT
CorrQueries ==
    {<<h>> \o w \o l : h \in CorrHeads,
                       w \in {<<>>} \cup {<<x>> : x \in CorrWheres},
                       l \in {<<>>, <<"LIM">>}}

\* the statement is well formed and bounded by a LIMIT
AlreadyCorrect(q) == q # <<>> /\ q[1] # "TYPO" /\ Cnt(q, "LIM") > 0

Sub(q, a, b) == [i \in 1..Len(q) |-> IF q[i] = a THEN b ELSE q[i]]

HasWhere(q) == \E i \in 1..Len(q) : q[i] \in CorrWheres

\* the fix of a rule, or _fix_common_typos
FixOf(n, q) ==
    CASE n = "add_missing_limit" ->
            IF Cnt(q, "LIM") > 0 THEN q ELSE Append(q, "LIM100")
      [] n = "optimize_select_star" -> Sub(q, "STAR", "STAR_TODO")
      [] n = "add_where_conditions" ->
            IF HasWhere(q) THEN q ELSE <<Head(q), "TODO_WHERE">> \o Tail(q)
      [] n = "fix_missing_commas" -> Sub(q, "ALIAS", "COMMA")
      [] n = "fix_quote_consistency" -> Sub(q, "QNUM", "NUM")
      [] n = "fix_common_typos" -> Sub(Sub(q, "NEQ", "NEQ_STD"), "TYPO", "SEL")
      [] OTHER -> q

\* re.search(rule["pattern"], query): the syntax rules are applied without it
PatternMatches(n, q) ==
    CASE n \in {"add_missing_limit", "add_where_conditions"} -> q[1] # "TYPO"
      [] n = "optimize_select_star" -> Cnt(q, "STAR") > 0
      [] n \in {"fix_aggregation_without_group_by", "fix_having_without_group_by"}
            -> FALSE
      [] OTHER -> TRUE

FiresOf(q) == {n \in Fixes : PatternMatches(n, q) /\ FixOf(n, q) # q}

(***************************************************************************)
(* A rule that raises.  _apply_correction_rule catches what the fix of a   *)
(* syntax rule raises; the other rules and the typo fix are called with no *)
(* try block around them.                                                  *)
(***************************************************************************)
NamesOf(rules, lo, hi) ==
    {rules[i].name : i \in {j \in 1..Len(rules) :
                               rules[j].confidence >= lo /\ rules[j].confidence < hi}}

\* rules whose exception leaves correct_query under the strategy
Unprotected(strategy) ==
    {"fix_common_typos"}
    \cup (IF strategy \in {"moderate", "aggressive"}
         THEN NamesOf(PerformanceOptimizations, 70, 101)
              \cup NamesOf(SemanticCorrections, 60, 101)
         ELSE {})
    \cup (IF strategy = "aggressive" THEN NamesOf(AllRules, 0, 60) ELSE {})

RaisedOut == <<CorrectionAttempt("none", 0, "raised", 0)>>

CorrectQueryOutcome(recovered, fires, raises, strategy) ==
    IF raises \cap Unprotected(strategy) # {}
    THEN RaisedOut
    ELSE CorrectQuery(recovered, fires \ raises, strategy)

NotCalled == <<CorrectionAttempt("none", 0, "none", 0)>>

\* _apply_progressive_strategy has not been called
NotApplied == [threshold |-> -1, applied |-> "none"]

IdleCorrection ==
    /\ cq_strategy = "conservative"
    /\ cq_recovered = FALSE
    /\ cq_fires = {}
    /\ cq_query = <<>>
    /\ cq_raises = {}
    /\ cq_attempts = NotCalled
    /\ ps_returned = NotApplied

InitCorrect ==
    /\ cq_strategy \in Strategies
    /\ cq_recovered \in BOOLEAN
    /\ cq_fires \in SUBSET Fixes
    /\ cq_query = <<>>
    /\ cq_raises = {}
    /\ cq_attempts = NotCalled
    /\ ps_returned = NotApplied

CorrectQueryCall ==
    /\ cq_attempts = NotCalled
    /\ cq_attempts' = CorrectQueryOutcome(cq_recovered, cq_fires, cq_raises, cq_strategy)
    /\ UNCHANGED <<xvars, cq_strategy, cq_recovered, cq_fires, cq_query, cq_raises,
                   ps_returned, vvars, rvars>>

(***************************************************************************)
(* One call of _validate_query_security on every query of the bound:       *)
(* SpecValidate without internal failures, SpecValidateFail with a         *)
(* statement of the try block raising.                                     *)
(***************************************************************************)
NoOutput ==
    [done |-> FALSE, is_safe |-> TRUE, message |-> "", report |-> EmptyReport,
     raised |-> FALSE, failAt |-> 0]

Returned(out, failAt) ==
    [done |-> TRUE, is_safe |-> out.is_safe, message |-> out.message,
     report |-> out.report, raised |-> out.raised, failAt |-> failAt]

InitValidate ==
    /\ vq \in QueriesUpTo(MaxFrags)
    /\ vdet \in BOOLEAN
    /\ vout = NoOutput
    /\ InitRun
    /\ IdleEngines
    /\ IdleCorrection

InitValidateFail ==
    /\ vq \in QueriesUpTo(MaxFailFrags)
    /\ vdet \in BOOLEAN
    /\ vout = NoOutput
    /\ InitRun
    /\ IdleEngines
    /\ IdleCorrection

ValidateCall ==
    /\ ~vout.done
    /\ vout' = Returned(ValidateQuerySecurity(vq, vdet, 0), 0)
    /\ UNCHANGED <<xvars, vq, vdet, rvars, cqvars>>

ValidateCallFailing ==
    /\ ~vout.done
    /\ \E failAt \in 1..NumSteps :
         vout' = Returned(ValidateQuerySecurity(vq, vdet, failAt), failAt)
    /\ UNCHANGED <<xvars, vq, vdet, rvars, cqvars>>

SpecValidate == InitValidate /\ [][ValidateCall]_vars

NextValidateFail == ValidateCall \/ ValidateCallFailing

SpecValidateFail == InitValidateFail /\ [][NextValidateFail]_vars

(***************************************************************************)
(* Claims about the security validator.                                    *)
(***************************************************************************)
Rank(l) ==
    CASE l = "safe" -> 0 [] l = "low" -> 1 [] l = "medium" -> 2
      [] l = "high" -> 3 [] l = "critical" -> 4

\* the text holds a statement terminator followed by DROP or TRUNCATE, or a
\* UNION SELECT followed by a comment
HoldsCriticalText(q) ==
    Cnt(q, "DROP") + Cnt(q, "TRUNC") > 0 \/ UnionThenComment(q)

\* C2: a query that matches a rule of the critical_violations list is never
\* reported safe, whatever the detector reports, also without a detector and
\* also when a statement of the validation raises.
C2_CriticalRuleBlocks ==
    (vout.done /\ HoldsCriticalText(vq)) => (~vout.is_safe /\ ~vout.report.is_safe)

\* a stacked TRUNCATE, which no detector pattern matches, validated without a
\* detector and without a failure: blocked by the critical rule alone
C2_Witness ==
    /\ vout.done /\ ~vdet /\ vout.failAt = 0
    /\ vq = <<"TRUNC", "LIM">>
    /\ ~vout.is_safe
    /\ vout.report.violations = <<Msg("rule", "DML/DDL operations not allowed")>>

\* C3: when a statement of the validation raises, the report is unsafe, its
\* risk level is critical and its last violation describes the error.
C3_FailClosed ==
    (vout.done /\ vout.raised) =>
        /\ ~vout.is_safe /\ ~vout.report.is_safe
        /\ vout.report.risk_level = "critical"
        /\ vout.report.violations # <<>>
        /\ vout.report.violations[Len(vout.report.violations)].kind
               = "Security validation error"

\* a query that every rule accepts, with the final statement raising
C3_Witness ==
    /\ vout.done /\ vout.raised /\ vout.failAt = NumSteps
    /\ vq = <<"SEL", "LIM">>
    /\ Len(vout.report.violations) = 1
    /\ ~vout.is_safe

\* C4: is_safe is true exactly when the violations list is empty.
C4_SafeIffNoViolations ==
    vout.done => (vout.is_safe <=> vout.report.violations = <<>>)

\* the severities of all rules that matched
MatchedLevels(q, detector) ==
    LET dp == IF detector THEN DetectInjectionPatterns(q) ELSE <<>>
        cr == CriticalViolations(q)
        md == MediumViolations(q)
        pf == PerformanceViolations(q)
    IN  {dp[i].risk_level : i \in 1..Len(dp)} \cup {cr[i].risk_level : i \in 1..Len(cr)}
        \cup {md[i].risk_level : i \in 1..Len(md)} \cup {pf[i].risk_level : i \in 1..Len(pf)}

\* C5: the risk level of the report is at least the severity of every rule that
\* matched (no later step lowers it), so it is critical whenever a critical
\* rule or pattern matched.
C5_RiskLevelIsMaximum ==
    (vout.done /\ ~vout.raised /\ vq # <<>>) =>
        \A l \in MatchedLevels(vq, vdet) : Rank(vout.report.risk_level) >= Rank(l)

\* C6 as claimed: every whitelisted query is reported safe without violations.
C6_WhitelistedIsSafe ==
    (vout.done /\ IsWhitelisted(vq)) =>
        (vout.is_safe /\ vout.report.violations = <<>>)

\* the blocking rules of the validator accept the query
PassesBlockingRules(q, detector) ==
    /\ detector => GenerateSecurityReport(q).safe_to_execute
    /\ QueryLength(q) <= max_query_length
    /\ ~HoldsCriticalText(q)
    /\ ~AlwaysTrueWhere(q)
    /\ StartsWithSelect(q) => (ContainsLimit(q) \/ ContainsTop(q))
    /\ LimitValue(q) <= max_limit_value

\* C6 amended: a whitelisted query is reported safe without violations when it
\* also passes the blocking rules (detector verdict, length, critical and
\* always-true rules, LIMIT present and within max_limit_value); a whitelisted
\* query that breaks one of them is blocked.
C6_WhitelistedAndAccepted ==
    (vout.done /\ IsWhitelisted(vq)) =>
        ((vout.is_safe /\ vout.report.violations = <<>>)
            <=> PassesBlockingRules(vq, vdet))

\* SELECT id FROM t WHERE id = 1 LIMIT 10 is whitelisted and accepted
C6_Witness ==
    /\ vout.done /\ vdet
    /\ vq = <<"SEL", "WHR", "LIM">>
    /\ IsWhitelisted(vq)
    /\ vout.is_safe /\ vout.report.violations = <<>>

(***************************************************************************)
(* The tool is configured and runs one query.                              *)
(***************************************************************************)
Init ==
    /\ vq = <<>>
    /\ vdet \in BOOLEAN
    /\ vout = NoOutput
    /\ InitRun
    /\ IdleEngines
    /\ IdleCorrection

Next ==
    \/ ConfigureErrorRecovery
    \/ StartRun
    \/ ExecuteSuccess
    \/ ExecuteFailFinal
    \/ ExecuteFailAutoCorrected
    \/ ExecuteFailProgressive
    \/ ExecuteFailUncorrected
    \/ PostLoop

Spec == Init /\ [][Next]_vars

(***************************************************************************)
(* correct_query on every input of the abstraction.                        *)
(***************************************************************************)
InitCorrectQuery ==
    /\ vq = <<>>
    /\ vdet = TRUE
    /\ vout = NoOutput
    /\ InitRun
    /\ IdleEngines
    /\ InitCorrect

SpecCorrect == InitCorrectQuery /\ [][CorrectQueryCall]_vars

\* correct_query on the queries of the vocabulary
InitCorrectText ==
    /\ vq = <<>>
    /\ vdet = TRUE
    /\ vout = NoOutput
    /\ InitRun
    /\ IdleEngines
    /\ cq_strategy \in Strategies
    /\ cq_recovered \in BOOLEAN
    /\ cq_query \in CorrQueries
    /\ cq_fires = FiresOf(cq_query)
    /\ cq_raises = {}
    /\ cq_attempts = NotCalled
    /\ ps_returned = NotApplied

SpecCorrectText == InitCorrectText /\ [][CorrectQueryCall]_vars

\* correct_query with at most one rule raising
InitCorrectFail ==
    /\ vq = <<>>
    /\ vdet = TRUE
    /\ vout = NoOutput
    /\ InitRun
    /\ IdleEngines
    /\ cq_strategy \in Strategies
    /\ cq_recovered \in BOOLEAN
    /\ cq_query = <<>>
    /\ cq_fires \in SUBSET Fixes
    /\ cq_raises \in {{}} \cup {{n} : n \in Fixes}
    /\ cq_attempts = NotCalled
    /\ ps_returned = NotApplied

SpecCorrectFail == InitCorrectFail /\ [][CorrectQueryCall]_vars

(***************************************************************************)
(* Claims about _run.                                                      *)
(***************************************************************************)
Unsafe == security.state = "returned" /\ ~security.is_safe

\* C1: the query is validated when the call starts, before the loop; when the
\* validation reports it unsafe the call ends at once with a Security Error,
\* without any db.run, recovery or strategy, and blocked_queries grows by one.
C1_BlockedBeforeLoop ==
    /\ [](/\ pc # "idle" => security.state # "none"
          /\ pc = "loop" => security.state = "returned"
          /\ Unsafe => /\ pc = "done"
                       /\ result.kind = "security_error"
                       /\ db_runs = 0
                       /\ recovery_calls = 0
                       /\ auto_corrections = 0
                       /\ strategies = <<>>)
    /\ [][(pc = "idle" /\ Unsafe')
             => stats'.blocked_queries = stats.blocked_queries + 1]_vars

\* SELECT id FROM t has no LIMIT: blocked
C1_Witness ==
    /\ pc = "done" /\ Unsafe
    /\ original_query = Text(<<"SEL">>, FALSE)
    /\ result.kind = "security_error"
    /\ stats.blocked_queries = 1
    /\ db_runs = 0

\* C7: with max_retry_attempts = N >= 0 a call runs db.run at most N + 1 times,
\* a success ends the call with that attempt's result, and a call that entered
\* the loop ends inside it, never in the statements after it.
C7_BoundedAttempts ==
    /\ [](max_retry_attempts >= 0 =>
            /\ db_runs <= max_retry_attempts + 1
            /\ result.exit # "postloop"
            /\ result.kind = "result" => pc = "done"
            /\ (pc = "done" /\ security.state = "returned" /\ security.is_safe)
                   => result.exit = "loop")
    /\ [][(result'.kind = "result" /\ result.kind # "result")
             => (pc = "loop" /\ pc' = "done" /\ db_runs' = db_runs + 1)]_vars

\* every attempt of a call with three retries failed
C7_Witness ==
    /\ pc = "done"
    /\ max_retry_attempts = 3
    /\ db_runs = 4
    /\ result.kind = "failure_report"
    /\ result.exit = "loop"

\* C8: _run never raises to its caller.
C8_NeverRaises == result.kind # "raised"

\* the ladder 0 -> conservative, 1 -> moderate, >= 2 -> aggressive
Ladder(k) ==
    CASE k = 0 -> "conservative" [] k = 1 -> "moderate" [] OTHER -> "aggressive"

\* C9 as claimed: the first strategy applied in a run is conservative, the
\* second moderate and the later ones aggressive, however many
\* auto-corrections came before.
C9_StrategyOrderByApplication ==
    \A i \in 1..Len(strategies) : strategies[i].strategy = Ladder(i - 1)

\* C9 amended: the strategy is chosen by the attempt index, which every
\* auto-correction advances: the k-th strategy applied after m
\* auto-corrections is the one of index k - 1 + m.
C9_StrategyByAttemptIndex ==
    \A i \in 1..Len(strategies) :
        /\ strategies[i].attempt = i - 1 + strategies[i].autos_before
        /\ strategies[i].strategy = Ladder(i - 1 + strategies[i].autos_before)

\* after one auto-correction the first strategy applied is moderate, and the
\* next one aggressive
C9_Witness ==
    /\ Len(strategies) = 2
    /\ strategies[1].autos_before = 1
    /\ strategies[1].strategy = "moderate"
    /\ strategies[1].changed
    /\ strategies[2].strategy = "aggressive"

(***************************************************************************)
(* Claims about correct_query.                                             *)
(***************************************************************************)
\* the 1-based position of an attempt in the discovery order
Discovered(x) ==
    LET d == DiscoveredAttempts(cq_recovered, cq_fires, cq_strategy)
    IN  CHOOSE i \in 1..Len(d) : d[i] = x

\* C10: the returned list holds the discovered attempts sorted by
\* (confidence, estimated_success_rate) descending, so confidences never
\* increase along it, and attempts with equal keys keep their discovery order.
C10_SortedDescending ==
    cq_attempts # NotCalled =>
        LET d == DiscoveredAttempts(cq_recovered, cq_fires, cq_strategy)
        IN  /\ Len(cq_attempts) = Len(d)
            /\ {cq_attempts[i] : i \in 1..Len(d)} = {d[i] : i \in 1..Len(d)}
            /\ \A i \in 1..(Len(cq_attempts) - 1) :
                 /\ cq_attempts[i].confidence >= cq_attempts[i + 1].confidence
                 /\ ~KeyLess(cq_attempts[i], cq_attempts[i + 1])
                 /\ (~KeyLess(cq_attempts[i + 1], cq_attempts[i])
                        => Discovered(cq_attempts[i]) < Discovered(cq_attempts[i + 1]))

\* the recovery attempt and two syntax attempts, discovered in the order
\* recovery (80), commas (80), quotes (90) and returned with quotes first
C10_Witness ==
    /\ cq_attempts # NotCalled
    /\ cq_recovered
    /\ cq_fires = {"fix_missing_commas", "fix_quote_consistency"}
    /\ Len(cq_attempts) = 3
    /\ cq_attempts[1].corrections_applied = "fix_quote_consistency"
    /\ cq_attempts[2].corrections_applied = "recovery"
    /\ cq_attempts[3].corrections_applied = "fix_missing_commas"

\* what a list of attempts proposes: each fix stands for the corrected query
\* it produces
Proposed(attempts) == {attempts[i].corrections_applied : i \in 1..Len(attempts)}

\* the syntax rules of confidence >= 0.8 and the typo fix
ConservativeFixes ==
    {SyntaxCorrections[i].name : i \in {j \in 1..Len(SyntaxCorrections) :
                                           SyntaxCorrections[j].confidence >= 80}}
    \cup {"fix_common_typos"}

\* C11: what correct_query returns under a strategy holds everything the
\* weaker strategies propose for the same query and nothing the stronger ones
\* do not; conservative proposes only the typo fix and the syntax rules of
\* confidence >= 0.8 (besides the recovery attempt, common to all strategies).
C11_StrategiesAdditive ==
    cq_attempts # NotCalled =>
        LET got == Proposed(cq_attempts) \ {"recovery"}
            cons == Proposed(ApplyConservativeCorrections(cq_fires))
            mod == Proposed(ApplyModerateCorrections(cq_fires))
            agg == Proposed(ApplyAggressiveCorrections(cq_fires))
        IN  /\ cons \subseteq mod /\ mod \subseteq agg
            /\ cons = cq_fires \cap ConservativeFixes
            /\ cq_strategy = "conservative" => got = cq_fires \cap ConservativeFixes
            /\ cq_strategy = "moderate" => (cq_fires \cap ConservativeFixes) \subseteq got
            /\ cq_strategy = "aggressive" =>
                   \A st \in {"conservative", "moderate"} :
                       Proposed(CorrectQuery(cq_recovered, cq_fires, st)) \subseteq
                           Proposed(cq_attempts)

\* a moderate call on a query that a syntax rule, a performance rule and the
\* low-confidence rule change: the first two are proposed, the third is not
C11_Witness ==
    /\ cq_attempts # NotCalled
    /\ cq_strategy = "moderate"
    /\ cq_fires = {"fix_missing_commas", "add_missing_limit", "add_where_conditions"}
    /\ Proposed(cq_attempts) = {"fix_missing_commas", "add_missing_limit"}

\* C12: for a query that is already correct, every attempt that correct_query
\* returns leaves the query as it is.
C12_CorrectQueryUnchanged ==
    (cq_attempts # NotCalled /\ AlreadyCorrect(cq_query)) =>
        \A i \in 1..Len(cq_attempts) :
            /\ cq_attempts[i].corrections_applied # "recovery"
            /\ FixOf(cq_attempts[i].corrections_applied, cq_query) = cq_query

\* the attempts that the rules which do not raise would yield
OtherAttempts ==
    Proposed(CorrectQuery(cq_recovered, cq_fires \ cq_raises, cq_strategy))

\* C13: when the pattern match or the fix of a rule raises, correct_query
\* returns the attempts of the other rules and none for the faulty one.
C13_CorrectionFailsOpen ==
    cq_attempts # NotCalled =>
        /\ cq_attempts # RaisedOut
        /\ Proposed(cq_attempts) = OtherAttempts

(***************************************************************************)
(* SQLErrorRecoveryEngine.  An error message is seen through the set of    *)
(* error patterns it matches, the recovery function through what it does   *)
(* with the query: "changed" (a non-empty query different from the input), *)
(* "unchanged", "empty" or "raises".  Confidences are in percent.          *)
(***************************************************************************)
MaxMatches == 2

ErrorPattern(t, f) == [error_type |-> t, recovery_function |-> f, confidence |-> 80]

ErrorPatterns ==
    << ErrorPattern("column_not_found", "fix_column_name"),
       ErrorPattern("table_not_found", "fix_table_name"),
       ErrorPattern("syntax_error", "fix_syntax_error"),
       ErrorPattern("function_error", "fix_function_error"),
       ErrorPattern("column_not_found", "fix_column_name"),
       ErrorPattern("table_not_found", "fix_table_name"),
       ErrorPattern("column_not_found", "fix_column_name"),
       ErrorPattern("table_not_found", "fix_table_name"),
       ErrorPattern("type_mismatch", "fix_type_mismatch"),
       ErrorPattern("permission_error", "none"),
       ErrorPattern("timeout_error", "optimize_for_timeout"),
       ErrorPattern("syntax_error", "fix_group_by_error"),
       ErrorPattern("syntax_error", "fix_aggregate_error") >>

\* the recovery functions the class defines: hasattr(self, recovery_function)
RecoveryFunctions ==
    {"fix_column_name", "fix_table_name", "fix_syntax_error", "fix_function_error",
     "fix_type_mismatch", "optimize_for_timeout", "fix_group_by_error"}

RecoveryOutcomes == {"changed", "unchanged", "empty", "raises"}

\* the loop of analyze_error from pattern i on
RECURSIVE AnalyzeLoop(_, _, _, _, _)
AnalyzeLoop(i, matched, best, highest, matches) ==
    IF i > Len(ErrorPatterns)
    THEN [error_type |-> IF best = 0 THEN "unknown_error"
                         ELSE ErrorPatterns[best].error_type,
          matches |-> matches,
          confidence |-> IF best = 0 THEN 0 ELSE highest]
    ELSE IF i \in matched
         THEN IF ErrorPatterns[i].confidence > highest
              THEN AnalyzeLoop(i + 1, matched, i, ErrorPatterns[i].confidence,
                               Append(matches, i))
              ELSE AnalyzeLoop(i + 1, matched, best, highest, Append(matches, i))
         ELSE AnalyzeLoop(i + 1, matched, best, highest, matches)

AnalyzeError(matched) == AnalyzeLoop(1, matched, 0, 0, <<>>)

FirstRecoverableOfAnyType(matches, error_type) ==
    LET ok == {k \in 1..Len(matches) :
                   ErrorPatterns[matches[k]].recovery_function # "none"}
    IN  IF ok = {} THEN 0 ELSE matches[CHOOSE k \in ok : \A j \in ok : k <= j]

\* the first match of the error type that names a recovery function, 0 if none
FirstRecoverable(matches, error_type) ==
    LET ok == {k \in 1..Len(matches) :
                   /\ ErrorPatterns[matches[k]].error_type = error_type
                   /\ ErrorPatterns[matches[k]].recovery_function # "none"}
    IN  IF ok = {} THEN 0 ELSE matches[CHOOSE k \in ok : \A j \in ok : k <= j]

RecoverFromError(matched, outcome, rstats) ==
    LET a == AnalyzeError(matched)
        best == FirstRecoverable(a.matches, a.error_type)
        counted == [rstats EXCEPT !.total_errors = @ + 1]
    IN  IF best = 0
        THEN [stats |-> counted,
              result |-> [success |-> FALSE, corrected_query |-> "none",
                          error_type |-> a.error_type, confidence |-> 0]]
        ELSE IF /\ ErrorPatterns[best].recovery_function \in RecoveryFunctions
                /\ outcome = "changed"
             THEN [stats |-> [counted EXCEPT !.successful_recoveries = @ + 1],
                   result |-> [success |-> TRUE, corrected_query |-> "corrected",
                               error_type |-> a.error_type,
                               confidence |-> ErrorPatterns[best].confidence]]
             ELSE [stats |-> counted,
                   result |-> [success |-> FALSE, corrected_query |-> "none",
                               error_type |-> a.error_type,
                               confidence |-> ErrorPatterns[best].confidence]]

InitRecover ==
    /\ vq = <<>>
    /\ vdet = TRUE
    /\ vout = NoOutput
    /\ InitRun
    /\ IdleCorrection
    /\ IdleScore
    /\ IdleSelector
    /\ IdleCallers
    /\ rec_matched \in {m \in SUBSET (1..Len(ErrorPatterns)) : Cardinality(m) <= MaxMatches}
    /\ rec_outcome \in RecoveryOutcomes
    /\ recovery_stats = [total_errors |-> 0, successful_recoveries |-> 0]
    /\ rec_result = NotRecovered

RecoverFromErrorCall ==
    /\ rec_result = NotRecovered
    /\ LET r == RecoverFromError(rec_matched, rec_outcome, recovery_stats)
       IN  /\ rec_result' = r.result
           /\ recovery_stats' = r.stats
    /\ UNCHANGED <<ccvars, pvars, rec_matched, rec_outcome, rsvars, idxvars, selvars, vvars, rvars,
                   cqvars>>

SpecRecover == InitRecover /\ [][RecoverFromErrorCall]_vars

\* the pattern analyze_error settles on: the most confident of the matching
\* patterns, the earliest of the table among equals (0 when none matches)
Winning(matched) ==
    IF matched = {} THEN 0
    ELSE CHOOSE w \in matched :
            \A o \in matched :
                \/ ErrorPatterns[o].confidence < ErrorPatterns[w].confidence
                \/ ErrorPatterns[o].confidence = ErrorPatterns[w].confidence /\ w <= o

WinningFunction(matched) ==
    IF matched = {} THEN "none" ELSE ErrorPatterns[Winning(matched)].recovery_function

\* C14: recover_from_error succeeds only when the recovery function of the
\* winning pattern produced a non-empty query different from the input; with no
\* match, no recovery function, an unchanged query or a raising function the
\* result is a failure with no corrected query and successful_recoveries stays.
C14_SuccessOnlyWhenChanged ==
    rec_result # NotRecovered =>
        /\ rec_result.success =>
              /\ WinningFunction(rec_matched) # "none"
              /\ rec_outcome = "changed"
              /\ rec_result.corrected_query = "corrected"
        /\ (\/ rec_matched = {}
            \/ WinningFunction(rec_matched) = "none"
            \/ rec_outcome \in {"unchanged", "empty", "raises"})
           => /\ ~rec_result.success
              /\ rec_result.corrected_query = "none"
              /\ recovery_stats.successful_recoveries = 0
        /\ recovery_stats.successful_recoveries = IF rec_result.success THEN 1 ELSE 0

\* a permission error whose message also matches the timeout pattern, with a
\* recovery function that would change the query
C14_Witness ==
    /\ rec_result # NotRecovered
    /\ rec_matched = {10, 11}
    /\ rec_outcome = "changed"
    /\ ~rec_result.success
    /\ recovery_stats.total_errors = 1

(***************************************************************************)
(* calculate_risk_score on every list of matched patterns                  *)
(***************************************************************************)
MaxPatterns == 4

RiskLevels == {"critical", "high", "medium", "low"}

\* lists of matched patterns, seen through their risk levels
PatternLists ==
    UNION {[1..n -> [risk_level : RiskLevels]] : n \in 0..MaxPatterns}

InitScore ==
    /\ vq = <<>>
    /\ vdet = TRUE
    /\ vout = NoOutput
    /\ InitRun
    /\ IdleCorrection
    /\ IdleRecovery
    /\ IdleSelector
    /\ IdleCallers
    /\ rs_patterns \in PatternLists
    /\ rs_out = NotScored

CalculateRiskScoreCall ==
    /\ rs_out = NotScored
    /\ rs_out' = CalculateRiskScore(rs_patterns)
    /\ UNCHANGED <<ccvars, pvars, rs_patterns, recvars, idxvars, selvars, vvars, rvars,
                   cqvars>>

SpecScore == InitScore /\ [][CalculateRiskScoreCall]_vars

\* matches of a level in the list, in whatever order
Matches(ps, l) == Cardinality({i \in 1..Len(ps) : ps[i].risk_level = l})

WeightSum(ps) ==
    100 * Matches(ps, "critical") + 75 * Matches(ps, "high")
    + 50 * Matches(ps, "medium") + 25 * Matches(ps, "low")

HighestPresent(ps) ==
    IF ps = <<>> THEN "safe"
    ELSE CHOOSE l \in RiskLevels :
            /\ Matches(ps, l) > 0
            /\ \A i \in 1..Len(ps) : Rank(ps[i].risk_level) <= Rank(l)

\* C15: for every list of matched patterns the score is the sum of the weights
\* critical 100, high 75, medium 50, low 25 capped at 100, hence within 0..100,
\* and the level is the highest severity present ("safe" for the empty list),
\* whatever the order of the matches and whatever the capped sum.
C15_ScoreCappedLevelHighest ==
    rs_out # NotScored =>
        /\ rs_out.score = Min(100, WeightSum(rs_patterns))
        /\ rs_out.score \in 0..100
        /\ rs_out.level = HighestPresent(rs_patterns)

\* a high match between two lesser ones: the sum 150 is capped, the level is high
C15_Witness ==
    /\ rs_out # NotScored
    /\ Len(rs_patterns) = 3
    /\ rs_patterns[1].risk_level = "medium"
    /\ rs_patterns[2].risk_level = "high"
    /\ rs_patterns[3].risk_level = "low"
    /\ rs_out = [score |-> 100, level |-> "high"]

(***************************************************************************)
(* SemanticTableSelector.  Tables are numbered; a dictionary of tables is  *)
(* the sequence of its keys in insertion order.  The similarity scores are *)
(* seen through the tables that reach similarity_threshold, in descending  *)
(* order of score.  The selector is the one the factory builds, without a  *)
(* progress callback.                                                      *)
(***************************************************************************)
MaxTables == 4

MaxIndexed == 2

MaxRequests == 1

MaxRebuilds == 1

\* default of the max_tables parameter of __init__
max_tables == 8

Tables == 1..MaxTables

Statuses == {"not_started", "in_progress", "completed", "failed", "disabled"}

\* table_info of a build request
TableInfo == [i \in 1..MaxIndexed |-> i]

Range(q) == {q[i] : i \in 1..Len(q)}

\* q[:n]
Take(q, n) == SubSeq(q, 1, Min(n, Len(q)))

\* sequences over S without repetition
DistinctSeqs(S) ==
    {q \in UNION {[1..n -> S] : n \in 0..Cardinality(S)} :
        \A i, j \in 1..Len(q) : i # j => q[i] # q[j]}

\* max_tables or self.max_tables
EffectiveMax(m) == IF m = 0 THEN max_tables ELSE m

FallbackAll(available, m) == available

\* available_tables[:max_tables]
Fallback(available, m) == Take(available, EffectiveMax(m))

SemanticSelectionUnpadded(available, m, ranked) ==
    Take(SelectSeq(ranked, LAMBDA t : t \in Range(available)), EffectiveMax(m))

\* the tables that reach the threshold, up to max_tables, padded from the input
\* order when fewer than three were selected
SemanticSelection(available, m, ranked) ==
    LET selected == Take(SelectSeq(ranked, LAMBDA t : t \in Range(available)),
                         EffectiveMax(m))
        remaining == SelectSeq(available, LAMBDA t : t \notin Range(selected))
    IN  IF Len(selected) < 3
        THEN selected \o Take(remaining, EffectiveMax(m) - Len(selected))
        ELSE selected

FallbackResult(scoring) ==
    [tables |-> Fallback(sel_available, sel_max_tables), fallback_used |-> TRUE,
     during_build |-> FALSE, scoring |-> scoring]

\* a worker is between indexing_progress.start and indexing_progress.complete
Building == \E w \in 1..Len(workers) : workers[w].pc = "loop"

\* select_relevant_tables up to the checks of enabled and of the status
SelectBegin ==
    /\ sel_pc = "idle"
    /\ IF ~enabled \/ status \in {"in_progress", "failed"}
       THEN /\ sel_pc' = "done"
            /\ sel_result' = FallbackResult("skipped")
       ELSE /\ sel_pc' = "check_map"
            /\ UNCHANGED sel_result
    /\ UNCHANGED <<ccvars, sel_available, sel_max_tables, idxvars, pvars, recvars,
                   rsvars, vvars,
                   rvars, cqvars>>

\* the check that embeddings are available
SelectCheckMap ==
    /\ sel_pc = "check_map"
    /\ IF table_embeddings = {}
       THEN /\ sel_pc' = "done"
            /\ sel_result' = FallbackResult("skipped")
       ELSE /\ sel_pc' = "score"
            /\ UNCHANGED sel_result
    /\ UNCHANGED <<ccvars, sel_available, sel_max_tables, idxvars, pvars, recvars,
                   rsvars, vvars,
                   rvars, cqvars>>

\* get_table_relevance_scores and the selection made from its scores
SelectScore ==
    /\ sel_pc = "score"
    /\ \E scoring \in {"ok", "none", "raises"}, ranked \in DistinctSeqs(table_embeddings) :
          /\ scoring # "ok" => ranked = <<>>
          /\ sel_result' =
                IF ~(enabled /\ model_ok /\ table_embeddings # {})
                THEN FallbackResult("none")
                ELSE IF scoring # "ok"
                     THEN FallbackResult(scoring)
                     ELSE [tables |-> SemanticSelection(sel_available, sel_max_tables,
                                                        ranked),
                           fallback_used |-> FALSE,
                           during_build |-> Building,
                           scoring |-> "ok"]
    /\ enabled' = (enabled /\ model_ok)
    /\ sel_pc' = "done"
    /\ UNCHANGED <<ccvars, sel_available, sel_max_tables, model_ok, status, table_embeddings,
                   indexing_thread, workers, requests, rebuilds, pvars, recvars,
                   rsvars,
                   vvars, rvars, cqvars>>

\* build_table_embeddings_async up to the decision to start a worker
AsyncCheck(r) ==
    /\ requests[r].pc = "idle"
    /\ requests[r].count < MaxRequests
    /\    LET recent == cache_file = "fresh"
              alive == indexing_thread # 0 /\ workers[indexing_thread].pc # "done"
              cached == table_embeddings # {} /\ status = "completed"
              valid == cached /\ Range(TableInfo) \subseteq table_embeddings /\ recent
              missing == SelectSeq(TableInfo, LAMBDA t : t \notin table_embeddings)
              returned == [requests EXCEPT ![r].count = @ + 1]
          IN  requests' =
                  IF alive \/ valid THEN returned
                  ELSE IF cached
                       THEN IF missing # <<>>
                            THEN [requests EXCEPT ![r].pc = "spawn",
                                                  ![r].table_info = missing]
                            ELSE returned
                       ELSE [requests EXCEPT ![r].pc = "spawn",
                                             ![r].table_info = TableInfo]
    /\ UNCHANGED <<ccvars, enabled, model_ok, status, table_embeddings, indexing_thread,
                   workers, rebuilds, selvars, pvars, recvars,
                   rsvars, vvars, rvars, cqvars>>

\* the worker thread is created and started
AsyncSpawn(r) ==
    /\ requests[r].pc = "spawn"
    /\ workers' = Append(workers, [pc |-> "begin", todo |-> requests[r].table_info,
                                    epoch |-> rebuilds])
    /\ indexing_thread' = Len(workers) + 1
    /\ requests' = [requests EXCEPT ![r] = [pc |-> "idle", count |-> @.count + 1,
                                           table_info |-> <<>>]]
    /\ UNCHANGED <<ccvars, enabled, model_ok, status, table_embeddings, rebuilds, selvars,
                   pvars, recvars,
                   rsvars, vvars, rvars, cqvars>>

\* build_table_embeddings up to indexing_progress.start
WorkerBegin(w) ==
    /\ workers[w].pc = "begin"
    /\ IF ~enabled
       THEN /\ status' = "disabled"
            /\ workers' = [workers EXCEPT ![w].pc = "done"]
            /\ UNCHANGED <<enabled, progress>>
       ELSE IF ~model_ok
            THEN /\ enabled' = FALSE
                 /\ status' = "failed"
                 /\ workers' = [workers EXCEPT ![w].pc = "done"]
                 /\ UNCHANGED progress
            ELSE /\ status' = "in_progress"
                 /\ progress' = [NoProgress EXCEPT !.total_tables = Len(workers[w].todo)]
                 /\ workers' = [workers EXCEPT ![w].pc = "loop"]
                 /\ UNCHANGED enabled
    /\ UNCHANGED <<ccvars, model_ok, table_embeddings, indexing_thread, requests, rebuilds,
                   selvars, cache_file, recvars, rsvars, vvars, rvars, cqvars>>

\* IndexingProgress.update
Update(p, success) ==
    [p EXCEPT !.processed_tables = @ + 1,
              !.successful_tables = IF success THEN @ + 1 ELSE @,
              !.failed_tables = IF success THEN @ ELSE @ + 1]

\* one pass of the loop over table_info
WorkerEmbed(w) ==
    /\ workers[w].pc = "loop"
    /\ workers[w].todo # <<>>
    /\ \E embedded \in BOOLEAN :
          /\ table_embeddings' = IF embedded
                                 THEN table_embeddings \cup {Head(workers[w].todo)}
                                 ELSE table_embeddings
          /\ progress' = Update(progress, embedded)
    /\ workers' = [workers EXCEPT ![w].todo = Tail(@)]
    /\ UNCHANGED <<ccvars, enabled, model_ok, status, indexing_thread, requests, rebuilds,
                   selvars, cache_file, recvars, rsvars, vvars, rvars, cqvars>>

\* indexing_progress.complete(success=True) and the end of the worker
WorkerComplete(w) ==
    /\ workers[w].pc = "loop"
    /\ workers[w].todo = <<>>
    /\ status' = "completed"
    /\ workers' = [workers EXCEPT ![w].pc = "done"]
    /\ \E saved \in BOOLEAN :      \* _save_embeddings_cache, which may fail
          cache_file' = IF saved THEN "fresh" ELSE cache_file
    /\ UNCHANGED <<ccvars, enabled, model_ok, table_embeddings, indexing_thread, requests,
                   rebuilds, selvars, progress, recvars, rsvars, vvars, rvars, cqvars>>

ForceRebuildIndex ==
    /\ rebuilds < MaxRebuilds
    /\ rebuilds' = rebuilds + 1
    /\ table_embeddings' = {}
    /\ status' = "not_started"
    /\ UNCHANGED <<ccvars, enabled, model_ok, indexing_thread, workers, requests, selvars,
                   pvars, recvars,
                   rsvars, vvars, rvars, cqvars>>

EnableSemanticSelection ==
    /\ ~enabled
    /\ enabled' = TRUE
    /\ UNCHANGED <<ccvars, model_ok, status, table_embeddings, indexing_thread, workers,
                   requests, rebuilds, selvars, pvars, recvars,
                   rsvars, vvars, rvars, cqvars>>

DisableSemanticSelection ==
    /\ enabled
    /\ enabled' = FALSE
    /\ UNCHANGED <<ccvars, model_ok, status, table_embeddings, indexing_thread, workers,
                   requests, rebuilds, selvars, pvars, recvars,
                   rsvars, vvars, rvars, cqvars>>

\* seven days pass since the cache file was written
CacheAges ==
    /\ cache_file = "fresh"
    /\ cache_file' = "stale"
    /\ UNCHANGED <<ccvars, idxvars, progress, selvars, recvars, rsvars, vvars, rvars,
                   cqvars>>

\* a new selector, with or without a cache file to load, and one selection
InitIndex ==
    /\ vq = <<>>
    /\ vdet = TRUE
    /\ vout = NoOutput
    /\ InitRun
    /\ IdleCorrection
    /\ IdleRecovery
    /\ IdleScore
    /\ IdleCallers
    /\ enabled \in BOOLEAN
    /\ model_ok \in BOOLEAN
    /\ \E cache_loaded \in BOOLEAN :
          IF enabled /\ cache_loaded
          THEN /\ status = "completed"
               /\ table_embeddings \in SUBSET Range(TableInfo)
               /\ cache_file = "fresh"
          ELSE /\ status = "not_started"
               /\ table_embeddings = {}
               /\ cache_file \in {"none", "stale"}
    /\ progress = NoProgress
    /\ indexing_thread = 0
    /\ workers = <<>>
    /\ requests = [r \in Requesters |-> IdleRequest]
    /\ rebuilds = 0
    /\ sel_pc = "idle"
    /\ sel_available = TableInfo
    /\ sel_max_tables = 0
    /\ sel_result = NoSelection

NextIndex ==
    \/ \E r \in Requesters : AsyncCheck(r)
    \/ \E r \in Requesters : AsyncSpawn(r)
    \/ \E w \in 1..Len(workers) : WorkerBegin(w)
    \/ \E w \in 1..Len(workers) : WorkerEmbed(w)
    \/ \E w \in 1..Len(workers) : WorkerComplete(w)
    \/ ForceRebuildIndex
    \/ CacheAges
    \/ EnableSemanticSelection
    \/ DisableSemanticSelection
    \/ SelectBegin
    \/ SelectCheckMap
    \/ SelectScore

SpecIndex == InitIndex /\ [][NextIndex]_vars

\* one selection on every input, in every state of the selector
InitSelect ==
    /\ vq = <<>>
    /\ vdet = TRUE
    /\ vout = NoOutput
    /\ InitRun
    /\ IdleCorrection
    /\ IdleRecovery
    /\ IdleScore
    /\ IdleCallers
    /\ enabled \in BOOLEAN
    /\ model_ok \in BOOLEAN
    /\ status \in Statuses
    /\ table_embeddings \in SUBSET Tables
    /\ cache_file = "none"
    /\ progress = NoProgress
    /\ indexing_thread = 0
    /\ workers = <<>>
    /\ requests = [r \in Requesters |-> IdleRequest]
    /\ rebuilds = 0
    /\ sel_pc = "idle"
    /\ sel_available \in {[i \in 1..n |-> i] : n \in 1..MaxTables}
    /\ sel_max_tables \in 0..(MaxTables + 1)
    /\ sel_result = NoSelection

NextSelect == SelectBegin \/ SelectCheckMap \/ SelectScore

SpecSelect == InitSelect /\ [][NextSelect]_vars

Running == {w \in 1..Len(workers) : workers[w].pc # "done"}

\* C16: at most one index build is in flight at any time, also when two
\* requests are issued concurrently from different threads.
C16_OneBuildInFlight == Cardinality(Running) <= 1

\* C17: a selection that overlaps a running build returns the fallback list and
\* never a result scored on the embedding map while the build is adding to it.
C17_NoScoringDuringBuild ==
    sel_pc = "done" => ~(sel_result.during_build /\ ~sel_result.fallback_used)

Min3(a, b, c) == Min(a, Min(b, c))

\* C18 as claimed: at least min(3, len(available_tables)) tables are returned for
\* every max_tables value, never more than max_tables, all of them available.
C18_RobustnessFloor ==
    sel_pc = "done" =>
        /\ Len(sel_result.tables) >= Min(3, Len(sel_available))
        /\ Len(sel_result.tables) <= EffectiveMax(sel_max_tables)
        /\ Range(sel_result.tables) \subseteq Range(sel_available)

\* C18, amended: at least min(3, max_tables, len(available_tables)) tables are
\* returned, never more than max_tables, all of them taken from available_tables.
C18_FloorUpToMaxTables ==
    sel_pc = "done" =>
        /\ Len(sel_result.tables) >=
              Min3(3, EffectiveMax(sel_max_tables), Len(sel_available))
        /\ Len(sel_result.tables) <= EffectiveMax(sel_max_tables)
        /\ Range(sel_result.tables) \subseteq Range(sel_available)

\* one table reached the threshold and two more were added from the input order
C18_Witness ==
    /\ sel_pc = "done"
    /\ ~sel_result.fallback_used
    /\ Len(sel_available) = 4
    /\ sel_max_tables = 3
    /\ sel_result.tables = <<4, 1, 2>>

\* semantic scoring was not available to the call
Unavailable ==
    \/ ~enabled
    \/ status \in {"in_progress", "failed"}
    \/ table_embeddings = {}
    \/ sel_result.scoring \in {"none", "raises"}

FirstN(available, n) == [i \in 1..Min(n, Len(available)) |-> available[i]]

\* C19: whenever semantic scoring is unavailable, select_relevant_tables returns
\* exactly the first max_tables entries of available_tables in input order, a
\* function of its inputs alone.
C19_FallbackDeterministic ==
    (sel_pc = "done" /\ Unavailable) =>
        sel_result.tables = FirstN(sel_available, EffectiveMax(sel_max_tables))

\* indexing in progress, four tables available and two asked for
C19_Witness ==
    /\ sel_pc = "done"
    /\ enabled
    /\ status = "in_progress"
    /\ table_embeddings # {}
    /\ Len(sel_available) = 4
    /\ sel_max_tables = 2
    /\ sel_result.tables = <<1, 2>>

\* the changes of status the claim allows; entering DISABLED is left free
AllowedChange(old, new) ==
    \/ old = "not_started" /\ new = "in_progress"
    \/ old = "in_progress" /\ new \in {"completed", "failed"}
    \/ old # "disabled" /\ new = "not_started"
    \/ old # "disabled" /\ new = "disabled"

\* C20: the status changes only along NOT_STARTED -> IN_PROGRESS -> COMPLETED or
\* FAILED and by the reset to NOT_STARTED; DISABLED is terminal.
C20_StatusTransitions == [][status' # status => AllowedChange(status, status')]_vars

(***************************************************************************)
(* The three cache validity checks of SemanticTableSelector                *)
(***************************************************************************)
\* the cache file exists and its mtime is less than 7 days back
CacheFileRecent == cache_file = "fresh"

IsIndexingCompleteAndValid(names) ==
    IF table_embeddings = {} THEN FALSE
    ELSE IF status # "completed" THEN FALSE
    ELSE IF ~(names \subseteq table_embeddings) THEN FALSE
    ELSE CacheFileRecent

IsCacheValidForTables(names) ==
    IF table_embeddings = {} THEN FALSE
    ELSE IF ~(names \subseteq table_embeddings) THEN FALSE
    ELSE CacheFileRecent

ValidateCacheForTables(names) ==
    LET cache_exists == table_embeddings # {}
        indexing_complete == status = "completed"
        checked == cache_exists /\ indexing_complete
        missing_tables == IF checked THEN names \ table_embeddings ELSE {}
        cache_age_valid == checked /\ CacheFileRecent
    IN  [cache_exists |-> cache_exists,
         indexing_complete |-> indexing_complete,
         missing_tables |-> missing_tables,
         cache_age_valid |-> cache_age_valid,
         overall_valid |-> /\ cache_exists
                           /\ indexing_complete
                           /\ missing_tables = {}
                           /\ cache_age_valid]

\* C21: the cache is reported valid for a set of table names only when the map
\* is non-empty, the status is COMPLETED, every name is a key of the map and the
\* cache file is within 7 days, and the three validity checks agree.
C21_ValidityChecksAgree ==
    \A names \in SUBSET Range(TableInfo) :
        LET four == /\ table_embeddings # {}
                    /\ status = "completed"
                    /\ names \subseteq table_embeddings
                    /\ cache_file = "fresh"
        IN  /\ IsCacheValidForTables(names) => four
            /\ IsIndexingCompleteAndValid(names) => four
            /\ ValidateCacheForTables(names).overall_valid => four
            /\ IsCacheValidForTables(names) = IsIndexingCompleteAndValid(names)
            /\ IsIndexingCompleteAndValid(names)
                  = ValidateCacheForTables(names).overall_valid

\* C25: when the cache file is older than 7 days and no build is running, a
\* build_table_embeddings_async request starts a build, also when every
\* requested table is a key of the in-memory map.
C25_StaleCacheRebuilt ==
    [][\A r \in Requesters :
          (/\ cache_file = "stale"
           /\ ~(indexing_thread # 0 /\ workers[indexing_thread].pc # "done")
           /\ requests[r].pc = "idle"
           /\ requests'[r] # requests[r])
          => requests'[r].pc = "spawn"]_vars

\* workers started before the last force_rebuild_index
Stale(w) == workers[w].epoch < rebuilds

\* C26: after force_rebuild_index the map is empty and the status NOT_STARTED,
\* and both stay so until a new build is requested, also when a background
\* build was running at the time of the call.
C26_RebuildStaysReset ==
    [][(/\ rebuilds > 0
        /\ table_embeddings = {}
        /\ status = "not_started"
        /\ \A w \in 1..Len(workers) : Stale(w)
        /\ \A r \in Requesters : requests[r].pc = "idle"
        /\ requests' = requests)
       => (table_embeddings' = {} /\ status' = "not_started")]_vars

\* C29: processed_tables = successful_tables + failed_tables and
\* processed_tables <= total_tables in every reachable state.
C29_ProgressCounters ==
    /\ progress.processed_tables = progress.successful_tables + progress.failed_tables
    /\ progress.processed_tables <= progress.total_tables

(***************************************************************************)
(* C23: every query that _run hands to db.run is one that                  *)
(* _validate_query_security accepts: the cleaned query of the first        *)
(* attempt and every corrected query of a later attempt satisfy the        *)
(* security rules.                                                         *)
(***************************************************************************)
Accepted(q) == ValidateQuerySecurity(q.frags, vdet, 0).is_safe

C23_ExecutedWasValidated == [][db_runs' > db_runs => Accepted(current_query)]_vars

(***************************************************************************)
(* C27: a finished run is reported as modified, and counted in             *)
(* successful_retries, exactly when an auto-correction or a progressive    *)
(* strategy changed the query in that run.                                 *)
(***************************************************************************)
CorrectionApplied ==
    \/ auto_corrections > 0
    \/ \E i \in 1..Len(strategies) : strategies[i].changed

C27_ModifiedIffCorrected ==
    (pc = "done" /\ result.kind \in {"result", "failure_report"})
        => (result.modified <=> CorrectionApplied)

(***************************************************************************)
(* C30: queries_with_errors <= total_queries and                           *)
(* queries_auto_corrected <= queries_with_errors after any sequence of     *)
(* calls, so that the reported rates stay within 0 and 100 percent.        *)
(***************************************************************************)
C30_ErrorCountsBounded ==
    /\ stats.queries_with_errors <= stats.total_queries
    /\ stats.queries_auto_corrected <= stats.queries_with_errors

(***************************************************************************)
(* SQLErrorRecoveryEngine.recover_from_error called by several threads on  *)
(* one engine.  No lock guards recovery_stats.  The statement              *)
(* total_errors += 1 holds no call between its read and its write; the     *)
(* statement that counts the attempt by type reads the counter with        *)
(* dict.get and stores the sum afterwards, and another thread can run      *)
(* between the two.                                                        *)
(***************************************************************************)
MaxCalls == 2

\* self.recovery_stats["total_errors"] += 1
CountError(t) ==
    /\ cc_threads[t].pc = "idle"
    /\ cc_threads[t].done < MaxCalls
    /\ cc_total_errors' = cc_total_errors + 1
    /\ cc_threads' = [cc_threads EXCEPT ![t].pc = "counted"]
    /\ UNCHANGED <<cc_by_type, recvars, rsvars, idxvars, pvars, selvars, vvars, rvars,
                   cqvars>>

\* self.recovery_stats["recovery_attempts_by_type"].get(type_name, 0)
GetAttempts(t) ==
    /\ cc_threads[t].pc = "counted"
    /\ cc_threads' = [cc_threads EXCEPT ![t].pc = "got", ![t].got = cc_by_type]
    /\ UNCHANGED <<cc_total_errors, cc_by_type, recvars, rsvars, idxvars, pvars,
                   selvars, vvars, rvars, cqvars>>

\* recovery_attempts_by_type[type_name] = <value read> + 1, and the rest of
\* the call, which touches neither counter
StoreAttempts(t) ==
    /\ cc_threads[t].pc = "got"
    /\ cc_by_type' = cc_threads[t].got + 1
    /\ cc_threads' = [cc_threads EXCEPT ![t].pc = "idle", ![t].done = @ + 1]
    /\ UNCHANGED <<cc_total_errors, recvars, rsvars, idxvars, pvars, selvars, vvars,
                   rvars, cqvars>>

InitCallers ==
    /\ vq = <<>>
    /\ vdet = TRUE
    /\ vout = NoOutput
    /\ InitRun
    /\ IdleCorrection
    /\ IdleRecovery
    /\ IdleScore
    /\ IdleSelector
    /\ IdleCallers

NextCallers ==
    \E t \in Threads : CountError(t) \/ GetAttempts(t) \/ StoreAttempts(t)

SpecCallers == InitCallers /\ [][NextCallers]_vars

RECURSIVE CallsDone(_)
CallsDone(ts) ==
    IF ts = {} THEN 0
    ELSE LET t == CHOOSE x \in ts : TRUE
         IN  cc_threads[t].done + CallsDone(ts \ {t})

(***************************************************************************)
(* C22: when concurrent calls have finished, every statistics counter has  *)
(* grown by exactly the number of increments performed: no update is lost. *)
(***************************************************************************)
C22_NoLostUpdate ==
    (\A t \in Threads : cc_threads[t].pc = "idle")
        => /\ cc_total_errors = CallsDone(Threads)
           /\ cc_by_type = CallsDone(Threads)

(***************************************************************************)
(* EnhancedUniversalSQLTool._apply_progressive_strategy.  What it returns  *)
(* is named by the correction it carries: the corrections_applied of the   *)
(* attempt whose corrected_query is returned, "unchanged" for the query    *)
(* it was given.                                                           *)
(***************************************************************************)
\* values of _correction_confidence_threshold, in percent
Thresholds == {50, 60, 70, 96}

\* for attempt in correction_attempts: if attempt.confidence >= threshold
RECURSIVE FirstAbove(_, _)
FirstAbove(attempts, th) ==
    IF attempts = <<>> THEN "none"
    ELSE IF Head(attempts).confidence >= th THEN Head(attempts).corrections_applied
    ELSE FirstAbove(Tail(attempts), th)

\* variant that falls back to the best attempt under every strategy
ApplyProgressiveStrategyAlways(attempts, strategy, th) ==
    IF attempts = RaisedOut THEN "unchanged"
    ELSE IF FirstAbove(attempts, th) # "none" THEN FirstAbove(attempts, th)
    ELSE IF attempts # <<>> THEN attempts[1].corrections_applied
    ELSE "unchanged"

\* an exception of correct_query is caught and the query is returned
ApplyProgressiveStrategy(attempts, strategy, th) ==
    IF attempts = RaisedOut THEN "unchanged"
    ELSE IF FirstAbove(attempts, th) # "none" THEN FirstAbove(attempts, th)
    ELSE IF strategy = "aggressive" /\ attempts # <<>>
         THEN attempts[1].corrections_applied
    ELSE "unchanged"

InitProgressive ==
    /\ vq = <<>>
    /\ vdet = TRUE
    /\ vout = NoOutput
    /\ InitRun
    /\ IdleEngines
    /\ cq_strategy \in Strategies
    /\ cq_recovered \in BOOLEAN
    /\ cq_query = <<>>
    /\ cq_fires \in SUBSET Fixes
    /\ cq_raises \in {{}} \cup {{n} : n \in Fixes}
    /\ cq_attempts = NotCalled
    /\ ps_returned = NotApplied

ApplyProgressiveStrategyCall ==
    /\ ps_returned = NotApplied
    /\ \E th \in Thresholds :
         LET attempts == CorrectQueryOutcome(cq_recovered, cq_fires, cq_raises,
                                             cq_strategy)
         IN  /\ cq_attempts' = attempts
             /\ ps_returned' =
                    [threshold |-> th,
                     applied |-> ApplyProgressiveStrategy(attempts, cq_strategy, th)]
    /\ UNCHANGED <<xvars, cq_strategy, cq_recovered, cq_fires, cq_query, cq_raises, vvars,
                   rvars>>

SpecProgressive == InitProgressive /\ [][ApplyProgressiveStrategyCall]_vars

(***************************************************************************)
(* C24: _apply_progressive_strategy returns the correction of the          *)
(* top-ranked attempt when that attempt reaches the threshold, and no      *)
(* lower-ranked attempt ever; below the threshold it returns the           *)
(* top-ranked attempt only under the aggressive strategy; with no          *)
(* attempts, below the threshold under another strategy, or when           *)
(* correct_query raises, it returns the query unchanged.                   *)
(***************************************************************************)
TopReaches(th) ==
    /\ cq_attempts # RaisedOut
    /\ cq_attempts # <<>>
    /\ cq_attempts[1].confidence >= th

C24_ProgressiveStrategyResult ==
    ps_returned # NotApplied =>
        LET th == ps_returned.threshold
        IN  /\ TopReaches(th)
                => ps_returned.applied = cq_attempts[1].corrections_applied
            /\ (~TopReaches(th) /\ cq_attempts # RaisedOut /\ cq_attempts # <<>>
                    /\ cq_strategy = "aggressive")
                => ps_returned.applied = cq_attempts[1].corrections_applied
            /\ (~TopReaches(th)
                    /\ (cq_attempts \in {RaisedOut, <<>>} \/ cq_strategy # "aggressive"))
                => ps_returned.applied = "unchanged"

\* under moderate, two attempts below the threshold: the query comes back
C24_Witness ==
    /\ ps_returned # NotApplied
    /\ cq_strategy = "moderate"
    /\ Len(cq_attempts) = 2
    /\ cq_attempts[1].confidence < ps_returned.threshold
    /\ ps_returned.applied = "unchanged"

(***************************************************************************)
(* C28: under the aggressive strategy every rule of the correction rule    *)
(* table whose pattern matches the query and whose fix changes it yields   *)
(* an attempt.                                                             *)
(***************************************************************************)
C28_AggressiveAppliesEveryRule ==
    (cq_attempts # NotCalled /\ cq_strategy = "aggressive")
        => \A n \in RuleNames \cap cq_fires :
              \E i \in 1..Len(cq_attempts) : cq_attempts[i].corrections_applied = n
====
